---- MODULE Spec2Model ----
(***************************************************************************)
(* Head tracking by sensor fusion: the MPU6050 driver (scaling and         *)
(* calibration offsets), the complementary filter, the scalar Kalman       *)
(* filter and its 3-axis composition, and the HeadTracker that owns one    *)
(* sensor and one filter.                                                  *)
(*                                                                         *)
(* Numbers.  The program computes in floating point; the model computes    *)
(* in fixed point, every quantity an integer count of its unit, every      *)
(* division rounding down:                                                 *)
(*   time          ticks, OneSecond ticks to the second                    *)
(*   acceleration  1/OneG g                                                *)
(*   angular rate  whole degrees per second                                *)
(*   angle         1/AngleOne degree, AngleOne = OneSecond, so that        *)
(*                 rate * dt is an angle without rounding                  *)
(*   alpha         1/AlphaOne                                              *)
(*   Kalman P,Q,R,K  1/KalmanOne                                           *)
(*   temperature   1/100 degree Celsius                                    *)
(* Python's None is the empty sequence, a present value v is <<v>>.        *)
(***************************************************************************)
EXTENDS Integers, Sequences, FiniteSets, TLC

None == <<>>
Some(v) == <<v>>
Val(o) == o[1]

Abs(n) == IF n < 0 THEN -n ELSE n

(* ---------------------------------------------------------------------- *)
(* Bounds of the model                                                     *)
(* ---------------------------------------------------------------------- *)

\* time.time() answers a tick in 0..MaxTime
MaxTime == 3
\* calibrate is called with samples in 0..MaxSamples
MaxSamples == 2
\* a caller of the whole tracker makes at most MaxOps calls
MaxOps == 3
\* a caller that only polls and resets makes at most MaxPolls calls
MaxPolls == 4

Times == 0..MaxTime

(* ---------------------------------------------------------------------- *)
(* Program constants                                                       *)
(* ---------------------------------------------------------------------- *)

\* the guard's 1.0 second, in ticks
OneSecond == 2
\* the 1.0 g subtracted from the Z offset, in acceleration units
OneG == 1000
\* ACCEL_SCALE[0], LSB per g
ACCEL_SCALE == 16384
\* GYRO_SCALE[0], LSB per degree per second
GYRO_SCALE == 131
\* the 1 of (1 - alpha), in alpha units
AlphaOne == 100
\* the 1 of (1 - K), in Kalman units
KalmanOne == 10000
\* KalmanFilter1D's defaults
process_noise == 10
measurement_noise == 300
estimation_error == 10000

AngleOne == OneSecond
Deg(d) == d * AngleOne
\* the 180 and 360 of the yaw normalisation
HalfTurn == Deg(180)
FullTurn == Deg(360)

(* ---------------------------------------------------------------------- *)
(* The bus: what one burst read of the 14 data registers can answer        *)
(* <<accel_x, accel_y, accel_z, temp, gyro_x, gyro_y, gyro_z>> in LSB, or  *)
(* the failure the bus raises                                              *)
(* ---------------------------------------------------------------------- *)

RawSamples ==
    { <<0, 16384, 16384, 340, 1310, 0, 23580>>,
      <<-16384, 100, 16000, -340, 65, -2620, -11790>> }

OSError == <<>>
BusAnswers == RawSamples \cup {OSError}

(* ---------------------------------------------------------------------- *)
(* Tilt from acceleration                                                  *)
(* ---------------------------------------------------------------------- *)

\* the largest r in lo..hi with r * r <= n, by bisection
RECURSIVE SqrtBetween(_, _, _)
SqrtBetween(n, lo, hi) ==
    IF lo = hi THEN lo
    ELSE LET mid == (lo + hi + 1) \div 2
         IN  IF mid * mid <= n
             THEN SqrtBetween(n, mid, hi)
             ELSE SqrtBetween(n, lo, mid - 1)

\* math.sqrt, rounded down (the root of a sum of two squares of accelerations)
Sqrt(n) == SqrtBetween(n, 0, 8 * OneG)

\* math.degrees(math.atan2(y, x)) in whole degrees, exact on the multiples of
\* 45 degrees and rounded to one of them elsewhere (the thresholds are the
\* slopes 1/2 and 2). yneg says that a zero y is the float -0.0.
Atan2Deg(y, x, yneg) ==
    LET ay == Abs(y)
        ax == Abs(x)
        \* the angle of (|y|, |x|), in 0..90
        q == IF ay = 0 THEN 0
             ELSE IF ax = 0 THEN 90
             ELSE IF 2 * ay < ax THEN 0
             ELSE IF ay > 2 * ax THEN 90
             ELSE 45
        \* in the half plane x >= 0 the angle is q, in x < 0 it is 180 - q
        a == IF x >= 0 THEN q ELSE 180 - q
    IN  IF y > 0 THEN a
        ELSE IF y < 0 THEN -a
        ELSE IF yneg THEN -a
        ELSE a

\* ComplementaryFilter._accel_angles and the same lines of
\* KalmanFilterOrientation.update: <<pitch, roll>> in angle units.
\* accel_x is never -0.0 (it is a difference of two floats that are not
\* -0.0), so -accel_x is -0.0 when accel_x is zero.
accel_angles(data) ==
    LET pitch == Atan2Deg(data.accel_y,
                          Sqrt(data.accel_x * data.accel_x
                               + data.accel_z * data.accel_z),
                          FALSE)
        roll == Atan2Deg(-data.accel_x, data.accel_z, data.accel_x = 0)
    IN  <<Deg(pitch), Deg(roll)>>

(* ---------------------------------------------------------------------- *)
(* MPU6050: scaling, offsets, calibration                                  *)
(* ---------------------------------------------------------------------- *)

\* raw / self.accel_scale
ScaleAccel(raw) == (raw * OneG) \div ACCEL_SCALE
\* raw / self.gyro_scale
ScaleGyro(raw) == raw \div GYRO_SCALE
\* (raw / 340.0) + 36.53
ScaleTemp(raw) == ((raw * 100) \div 340) + 3653

ZeroOffset == <<0, 0, 0>>

\* read without the offset of the gyro Z axis
MPU6050_read_gyro_z_uncorrected(raw, accel_offset, gyro_offset) ==
    [ accel_x |-> ScaleAccel(raw[1]) - accel_offset[1],
      accel_y |-> ScaleAccel(raw[2]) - accel_offset[2],
      accel_z |-> ScaleAccel(raw[3]) - accel_offset[3],
      temp    |-> ScaleTemp(raw[4]),
      gyro_x  |-> ScaleGyro(raw[5]) - gyro_offset[1],
      gyro_y  |-> ScaleGyro(raw[6]) - gyro_offset[2],
      gyro_z  |-> ScaleGyro(raw[7]) ]

\* MPU6050.read, given what the burst read answered
MPU6050_read(raw, accel_offset, gyro_offset) ==
    [ accel_x |-> ScaleAccel(raw[1]) - accel_offset[1],
      accel_y |-> ScaleAccel(raw[2]) - accel_offset[2],
      accel_z |-> ScaleAccel(raw[3]) - accel_offset[3],
      temp    |-> ScaleTemp(raw[4]),
      gyro_x  |-> ScaleGyro(raw[5]) - gyro_offset[1],
      gyro_y  |-> ScaleGyro(raw[6]) - gyro_offset[2],
      gyro_z  |-> ScaleGyro(raw[7]) - gyro_offset[3] ]

\* the loop of MPU6050.calibrate: accel_sum[k] over the samples read
RECURSIVE accel_sum(_, _)
accel_sum(stream, k) ==
    IF stream = <<>> THEN 0
    ELSE ScaleAccel(Head(stream)[k]) + accel_sum(Tail(stream), k)

\* gyro_sum[k] over the samples read (raw[4 + k] of the burst)
RECURSIVE gyro_sum(_, _)
gyro_sum(stream, k) ==
    IF stream = <<>> THEN 0
    ELSE ScaleGyro(Head(stream)[4 + k]) + gyro_sum(Tail(stream), k)

\* the accel offsets without the 1 g taken from the Z axis
calibrate_accel_offset_with_gravity(stream, samples) ==
    << accel_sum(stream, 1) \div samples,
       accel_sum(stream, 2) \div samples,
       accel_sum(stream, 3) \div samples >>

\* the offsets MPU6050.calibrate assigns after its loop, samples > 0
calibrate_accel_offset(stream, samples) ==
    << accel_sum(stream, 1) \div samples,
       accel_sum(stream, 2) \div samples,
       (accel_sum(stream, 3) \div samples) - OneG >>

\* the gyro offsets as the sums, not divided by the number of samples
calibrate_gyro_offset_undivided(stream, samples) ==
    << gyro_sum(stream, 1), gyro_sum(stream, 2), gyro_sum(stream, 3) >>

calibrate_gyro_offset(stream, samples) ==
    << gyro_sum(stream, 1) \div samples,
       gyro_sum(stream, 2) \div samples,
       gyro_sum(stream, 3) \div samples >>

\* the streams of n bus answers
RECURSIVE Streams(_)
Streams(n) ==
    IF n = 0 THEN {<<>>}
    ELSE {Append(s, r) : s \in Streams(n - 1), r \in RawSamples}

(* ---------------------------------------------------------------------- *)
(* Orientation objects live in a heap, so that a returned Orientation can  *)
(* be the filter's own object. A slot that is not live is zero.            *)
(* ---------------------------------------------------------------------- *)

Refs == {1, 2, 3}

Orientation(pitch, roll, yaw) ==
    [live |-> TRUE, pitch |-> pitch, roll |-> roll, yaw |-> yaw]

Free == [live |-> FALSE, pitch |-> 0, roll |-> 0, yaw |-> 0]

\* the three numbers of an object
Angles(o) == <<o.pitch, o.roll, o.yaw>>

\* the yaw normalisation loops
RECURSIVE NormalizeDown(_)
NormalizeDown(yaw) ==
    IF yaw > HalfTurn THEN NormalizeDown(yaw - FullTurn) ELSE yaw

RECURSIVE NormalizeUp(_)
NormalizeUp(yaw) ==
    IF yaw < -HalfTurn THEN NormalizeUp(yaw + FullTurn) ELSE yaw

\* normalize_yaw without its first loop
normalize_yaw_up_only(yaw) == NormalizeUp(yaw)

\* the normalisation with an if in place of each while
normalize_yaw_once(yaw) ==
    IF yaw > HalfTurn THEN yaw - FullTurn
    ELSE IF yaw < -HalfTurn THEN yaw + FullTurn
    ELSE yaw

normalize_yaw(yaw) == NormalizeUp(NormalizeDown(yaw))

\* the guard with dt < 0 for dt <= 0
dt_rejected_zero_accepted(dt) == dt < 0 \/ dt > OneSecond

\* the guard without its dt > 1.0
dt_rejected_stall_accepted(dt) == dt <= 0

\* if dt <= 0 or dt > 1.0
dt_rejected(dt) == dt <= 0 \/ dt > OneSecond

(* ---------------------------------------------------------------------- *)
(* ComplementaryFilter                                                     *)
(* ---------------------------------------------------------------------- *)

\* ComplementaryFilter.__init__; its Orientation is the object at ref
ComplementaryFilter_init(alpha, ref) ==
    [ name        |-> "Complementary",
      alpha       |-> alpha,
      orientation |-> ref,
      last_time   |-> None ]

\* the blend with the accelerometer term at full weight
blend_unweighted_accel(alpha, gyro, accel) ==
    (alpha * gyro + AlphaOne * accel) \div AlphaOne

\* alpha * gyro + (1 - alpha) * accel
blend(alpha, gyro, accel) ==
    (alpha * gyro + (AlphaOne - alpha) * accel) \div AlphaOne

\* the first call with pitch and roll exchanged
ComplementaryFilter_seed_swapped(o, sensor_data) ==
    LET tilt == accel_angles(sensor_data)
    IN  [o EXCEPT !.pitch = tilt[2], !.roll = tilt[1]]

\* ComplementaryFilter.update, first call: the angles of the accelerometer
ComplementaryFilter_seed(o, sensor_data) ==
    LET tilt == accel_angles(sensor_data)
    IN  [o EXCEPT !.pitch = tilt[1], !.roll = tilt[2]]

\* the step with alpha on the accelerometer and 1 - alpha on the gyro
ComplementaryFilter_step_weights_swapped(alpha, o, sensor_data, dt) ==
    LET tilt == accel_angles(sensor_data)
        gyro_pitch == o.pitch + sensor_data.gyro_x * dt
        gyro_roll  == o.roll + sensor_data.gyro_y * dt
        gyro_yaw   == o.yaw + sensor_data.gyro_z * dt
    IN  [o EXCEPT !.pitch = blend(alpha, tilt[1], gyro_pitch),
                  !.roll  = blend(alpha, tilt[2], gyro_roll),
                  !.yaw   = normalize_yaw(gyro_yaw)]

\* ComplementaryFilter.update, an accepted step: integrate, blend, normalise
ComplementaryFilter_step(alpha, o, sensor_data, dt) ==
    LET tilt == accel_angles(sensor_data)
        gyro_pitch == o.pitch + sensor_data.gyro_x * dt
        gyro_roll  == o.roll + sensor_data.gyro_y * dt
        gyro_yaw   == o.yaw + sensor_data.gyro_z * dt
    IN  [o EXCEPT !.pitch = blend(alpha, gyro_pitch, tilt[1]),
                  !.roll  = blend(alpha, gyro_roll, tilt[2]),
                  !.yaw   = normalize_yaw(gyro_yaw)]

\* the update that keeps its last_time when it rejects the interval
ComplementaryFilter_update_keeps_time(f, h, sensor_data, current_time) ==
    LET o == h[f.orientation]
        f1 == [f EXCEPT !.last_time = Some(current_time)]
    IN  IF f.last_time = None
        THEN [ filter |-> f1,
               heap   |-> [h EXCEPT ![f.orientation] =
                              ComplementaryFilter_seed(o, sensor_data)],
               ret    |-> f.orientation,
               raised |-> FALSE ]
        ELSE LET dt == current_time - Val(f.last_time)
             IN  IF dt_rejected(dt)
                 THEN [filter |-> f, heap |-> h, ret |-> f.orientation,
                       raised |-> FALSE]
                 ELSE [ filter |-> f1,
                        heap   |-> [h EXCEPT ![f.orientation] =
                                      ComplementaryFilter_step(f.alpha, o,
                                                               sensor_data, dt)],
                        ret    |-> f.orientation,
                        raised |-> FALSE ]

\* ComplementaryFilter.update: the filter and the heap after the call, and
\* the reference it returns, which is the filter's own object
ComplementaryFilter_update(f, h, sensor_data, current_time) ==
    LET o == h[f.orientation]
        f1 == [f EXCEPT !.last_time = Some(current_time)]
    IN  IF f.last_time = None
        THEN [ filter |-> f1,
               heap   |-> [h EXCEPT ![f.orientation] =
                              ComplementaryFilter_seed(o, sensor_data)],
               ret    |-> f.orientation,
               raised |-> FALSE ]
        ELSE LET dt == current_time - Val(f.last_time)
             IN  IF dt_rejected(dt)
                 THEN [filter |-> f1, heap |-> h, ret |-> f.orientation,
                       raised |-> FALSE]
                 ELSE [ filter |-> f1,
                        heap   |-> [h EXCEPT ![f.orientation] =
                                      ComplementaryFilter_step(f.alpha, o,
                                                               sensor_data, dt)],
                        ret    |-> f.orientation,
                        raised |-> FALSE ]

\* reset that clears last_time and keeps the orientation
ComplementaryFilter_reset_keeps_orientation(f, h, ref) ==
    [filter |-> [f EXCEPT !.last_time = None], heap |-> h]

\* ComplementaryFilter.reset: a new Orientation object at ref
ComplementaryFilter_reset(f, h, ref) ==
    [ filter |-> [f EXCEPT !.orientation = ref, !.last_time = None],
      heap   |-> [h EXCEPT ![ref] = Orientation(0, 0, 0)] ]

(* ---------------------------------------------------------------------- *)
(* KalmanFilter1D and KalmanFilterOrientation                              *)
(* ---------------------------------------------------------------------- *)

\* KalmanFilter1D.__init__
KalmanFilter1D_init(Q, R, P) ==
    [Q |-> Q, R |-> R, P |-> P, K |-> 0, angle |-> 0, bias |-> 0]

\* an update that raises whenever R is zero
KalmanFilter1D_raises_on_zero_R(kf) == kf.R = 0

\* KalmanFilter1D.update divides by self.P + self.R after self.P += self.Q:
\* the division raises ZeroDivisionError when that sum is zero
KalmanFilter1D_raises(kf) == kf.P + kf.Q + kf.R = 0

\* the update with R left out of the denominator of the gain
KalmanFilter1D_update_gain_without_R(kf, new_angle, new_rate, dt) ==
    LET rate   == new_rate - kf.bias
        angle1 == kf.angle + dt * rate
        P1     == kf.P + kf.Q
    IN  IF P1 = 0
        THEN [kf EXCEPT !.angle = angle1, !.P = P1]
        ELSE LET K      == (P1 * KalmanOne) \div P1
                 angle2 == angle1 + ((K * (new_angle - angle1)) \div KalmanOne)
                 P2     == ((KalmanOne - K) * P1) \div KalmanOne
             IN  [kf EXCEPT !.angle = angle2, !.P = P2, !.K = K]

\* the update that computes its gain before P += Q
KalmanFilter1D_update_gain_first(kf, new_angle, new_rate, dt) ==
    LET rate   == new_rate - kf.bias
        angle1 == kf.angle + dt * rate
        P1     == kf.P + kf.Q
    IN  IF kf.P + kf.R = 0
        THEN [kf EXCEPT !.angle = angle1, !.P = P1]
        ELSE LET K      == (kf.P * KalmanOne) \div (kf.P + kf.R)
                 angle2 == angle1 + ((K * (new_angle - angle1)) \div KalmanOne)
                 P2     == ((KalmanOne - K) * P1) \div KalmanOne
             IN  [kf EXCEPT !.angle = angle2, !.P = P2, !.K = K]

\* the update that also moves the bias by the correction it applies
KalmanFilter1D_update_tracks_bias(kf, new_angle, new_rate, dt) ==
    LET rate   == new_rate - kf.bias
        angle1 == kf.angle + dt * rate
        P1     == kf.P + kf.Q
    IN  IF P1 + kf.R = 0
        THEN [kf EXCEPT !.angle = angle1, !.P = P1]
        ELSE LET K      == (P1 * KalmanOne) \div (P1 + kf.R)
                 step   == (K * (new_angle - angle1)) \div KalmanOne
                 P2     == ((KalmanOne - K) * P1) \div KalmanOne
             IN  [kf EXCEPT !.angle = angle1 + step, !.P = P2, !.K = K,
                            !.bias = kf.bias - step]

\* the update that leaves the predicted covariance uncorrected
KalmanFilter1D_update_keeps_P(kf, new_angle, new_rate, dt) ==
    LET rate   == new_rate - kf.bias
        angle1 == kf.angle + dt * rate
        P1     == kf.P + kf.Q
    IN  IF P1 + kf.R = 0
        THEN [kf EXCEPT !.angle = angle1, !.P = P1]
        ELSE LET K      == (P1 * KalmanOne) \div (P1 + kf.R)
                 angle2 == angle1 + ((K * (new_angle - angle1)) \div KalmanOne)
             IN  [kf EXCEPT !.angle = angle2, !.P = P1, !.K = K]

\* KalmanFilter1D.update: the filter after the call; it returns its angle.
\* When the division raises, the prediction and self.P += self.Q have been
\* made and nothing after them.
KalmanFilter1D_update(kf, new_angle, new_rate, dt) ==
    LET rate   == new_rate - kf.bias
        angle1 == kf.angle + dt * rate
        P1     == kf.P + kf.Q
    IN  IF P1 + kf.R = 0
        THEN [kf EXCEPT !.angle = angle1, !.P = P1]
        ELSE LET K      == (P1 * KalmanOne) \div (P1 + kf.R)
                 angle2 == angle1 + ((K * (new_angle - angle1)) \div KalmanOne)
                 P2     == ((KalmanOne - K) * P1) \div KalmanOne
             IN  [kf EXCEPT !.angle = angle2, !.P = P2, !.K = K]

\* KalmanFilterOrientation.__init__
KalmanFilterOrientation_init(Q, R) ==
    [ name         |-> "Kalman",
      pitch_filter |-> KalmanFilter1D_init(Q, R, estimation_error),
      roll_filter  |-> KalmanFilter1D_init(Q, R, estimation_error),
      yaw          |-> 0,
      last_time    |-> None ]

\* an accepted step of KalmanFilterOrientation.update raises in one of its
\* two 1-axis updates
KalmanFilterOrientation_raises(f) ==
    KalmanFilter1D_raises(f.pitch_filter) \/ KalmanFilter1D_raises(f.roll_filter)

\* the step with a cross-axis term: the yaw integrates gyro_x as well
KalmanFilterOrientation_step_coupled(f, sensor_data, dt) ==
    LET tilt == accel_angles(sensor_data)
        pitch_filter == KalmanFilter1D_update(f.pitch_filter, tilt[1],
                                              sensor_data.gyro_x, dt)
        roll_filter == KalmanFilter1D_update(f.roll_filter, tilt[2],
                                             sensor_data.gyro_y, dt)
    IN  IF KalmanFilter1D_raises(f.pitch_filter)
        THEN [f EXCEPT !.pitch_filter = pitch_filter]
        ELSE IF KalmanFilter1D_raises(f.roll_filter)
        THEN [f EXCEPT !.pitch_filter = pitch_filter,
                       !.roll_filter = roll_filter]
        ELSE [f EXCEPT
                !.pitch_filter = pitch_filter,
                !.roll_filter  = roll_filter,
                !.yaw = normalize_yaw(f.yaw + (sensor_data.gyro_z
                                               + sensor_data.gyro_x) * dt)]

\* KalmanFilterOrientation.update, an accepted step: the two 1-axis filters
\* and the integrated, normalised yaw. An update that raises ends the step
\* where it is: the roll filter is not reached when the pitch filter raises,
\* the yaw is not reached when either raises.
KalmanFilterOrientation_step(f, sensor_data, dt) ==
    LET tilt == accel_angles(sensor_data)
        pitch_filter == KalmanFilter1D_update(f.pitch_filter, tilt[1],
                                              sensor_data.gyro_x, dt)
        roll_filter == KalmanFilter1D_update(f.roll_filter, tilt[2],
                                             sensor_data.gyro_y, dt)
    IN  IF KalmanFilter1D_raises(f.pitch_filter)
        THEN [f EXCEPT !.pitch_filter = pitch_filter]
        ELSE IF KalmanFilter1D_raises(f.roll_filter)
        THEN [f EXCEPT !.pitch_filter = pitch_filter,
                       !.roll_filter = roll_filter]
        ELSE [f EXCEPT
                !.pitch_filter = pitch_filter,
                !.roll_filter  = roll_filter,
                !.yaw = normalize_yaw(f.yaw + sensor_data.gyro_z * dt)]

\* Orientation(self.pitch_filter.angle, self.roll_filter.angle, self.yaw)
KalmanFilterOrientation_angles(f) ==
    Orientation(f.pitch_filter.angle, f.roll_filter.angle, f.yaw)

\* the update whose first call seeds the two angles from the accelerometer,
\* as the complementary filter's does
KalmanFilterOrientation_update_seeding(f, h, sensor_data, current_time, ref) ==
    LET f1 == [f EXCEPT !.last_time = Some(current_time)]
        tilt == accel_angles(sensor_data)
        f0 == [f1 EXCEPT !.pitch_filter.angle = tilt[1],
                         !.roll_filter.angle = tilt[2]]
    IN  IF f.last_time = None
        THEN [ filter |-> f0,
               heap   |-> [h EXCEPT ![ref] =
                             KalmanFilterOrientation_angles(f0)],
               ret    |-> ref,
               raised |-> FALSE ]
        ELSE LET dt == current_time - Val(f.last_time)
                 f2 == KalmanFilterOrientation_step(f1, sensor_data, dt)
             IN  IF dt_rejected(dt)
                 THEN [ filter |-> f1,
                        heap   |-> [h EXCEPT ![ref] =
                                      KalmanFilterOrientation_angles(f1)],
                        ret    |-> ref,
                        raised |-> FALSE ]
                 ELSE IF KalmanFilterOrientation_raises(f1)
                 THEN [filter |-> f2, heap |-> h, ret |-> ref, raised |-> TRUE]
                 ELSE [ filter |-> f2,
                        heap   |-> [h EXCEPT ![ref] =
                                      KalmanFilterOrientation_angles(f2)],
                        ret    |-> ref,
                        raised |-> FALSE ]

\* KalmanFilterOrientation.update: every return builds a new Orientation,
\* at ref; a step that raises returns nothing
KalmanFilterOrientation_update(f, h, sensor_data, current_time, ref) ==
    LET f1 == [f EXCEPT !.last_time = Some(current_time)]
    IN  IF f.last_time = None
        THEN [ filter |-> f1,
               heap   |-> [h EXCEPT ![ref] = Orientation(0, 0, 0)],
               ret    |-> ref,
               raised |-> FALSE ]
        ELSE LET dt == current_time - Val(f.last_time)
                 f2 == KalmanFilterOrientation_step(f1, sensor_data, dt)
             IN  IF dt_rejected(dt)
                 THEN [ filter |-> f1,
                        heap   |-> [h EXCEPT ![ref] =
                                      KalmanFilterOrientation_angles(f1)],
                        ret    |-> ref,
                        raised |-> FALSE ]
                 ELSE IF KalmanFilterOrientation_raises(f1)
                 THEN [filter |-> f2, heap |-> h, ret |-> ref, raised |-> TRUE]
                 ELSE [ filter |-> f2,
                        heap   |-> [h EXCEPT ![ref] =
                                      KalmanFilterOrientation_angles(f2)],
                        ret    |-> ref,
                        raised |-> FALSE ]

\* KalmanFilterOrientation.reset: KalmanFilter1D() takes its defaults
KalmanFilterOrientation_reset(f) ==
    [f EXCEPT
       !.pitch_filter = KalmanFilter1D_init(process_noise, measurement_noise,
                                            estimation_error),
       !.roll_filter  = KalmanFilter1D_init(process_noise, measurement_noise,
                                            estimation_error),
       !.yaw = 0,
       !.last_time = None]

(* ---------------------------------------------------------------------- *)
(* HeadTracker and its caller                                              *)
(* ---------------------------------------------------------------------- *)

VARIABLES
    filter,         \* HeadTracker.filter: the filter object's fields
    heap,           \* the Orientation objects
    accel_offset,   \* MPU6050.accel_offset
    gyro_offset,    \* MPU6050.gyro_offset
    state,          \* the tracker's lifecycle: a calibrate has completed or not
    held,           \* the Orientation the caller holds: its reference and the
                    \* numbers it had when it was returned
    returned,       \* the numbers the latest filter update returned
    last,           \* the latest call: its inputs, what it called, how it ended
    n_ops           \* the calls made so far

vars == <<filter, heap, accel_offset, gyro_offset, state, held, returned,
          last, n_ops>>

\* the filter_type strings HeadTracker is constructed with
FilterTypes == {"complementary", "kalman", "madgwick"}
\* the alpha values HeadTracker is constructed with (0.96 is its default)
Alphas == {50, 96}

EmptyHeap == [r \in Refs |-> Free]

\* the references the filter and the caller hold
Reachable(f, hd) ==
    (IF f.name = "Complementary" THEN {f.orientation} ELSE {})
    \cup (IF hd = None THEN {} ELSE {Val(hd).ref})

\* objects nobody refers to are collected
Collect(h, f, hd) ==
    [r \in Refs |-> IF r \in Reachable(f, hd) THEN h[r] ELSE Free]

\* where a new object is built: a slot that holds no object
NewRef(h) == CHOOSE r \in Refs : ~h[r].live /\ \A q \in Refs : ~h[q].live => r <= q

\* the record of a call: how it ended, the bus answers it computed with, the
\* burst reads it made, the collaborators it called in order, what
\* time.time() answered, the interval dt the filter computed from it, and
\* the sample handed to the filter
Call(op, outcome, reads, n_reads, calls, now, dt, sensor_data) ==
    [op |-> op, outcome |-> outcome, reads |-> reads, n_reads |-> n_reads,
     calls |-> calls, now |-> now, dt |-> dt, sensor_data |-> sensor_data]

\* a call that reads no clock and hands the filter nothing
PlainCall(op, outcome, reads, n_reads, calls) ==
    Call(op, outcome, reads, n_reads, calls, None, None, None)

\* a sensor constructed with 1 g in its Z offset
HeadTracker_init_with_gravity(filter_type, alpha) ==
    /\ IF filter_type = "kalman"
       THEN /\ filter = KalmanFilterOrientation_init(process_noise,
                                                     measurement_noise)
            /\ heap = EmptyHeap
       ELSE /\ filter = ComplementaryFilter_init(alpha, 1)
            /\ heap = [EmptyHeap EXCEPT ![1] = Orientation(0, 0, 0)]
    /\ accel_offset = <<0, 0, OneG>>
    /\ gyro_offset = ZeroOffset

\* HeadTracker.__init__
HeadTracker_init(filter_type, alpha) ==
    /\ IF filter_type = "kalman"
       THEN /\ filter = KalmanFilterOrientation_init(process_noise,
                                                     measurement_noise)
            /\ heap = EmptyHeap
       ELSE /\ filter = ComplementaryFilter_init(alpha, 1)
            /\ heap = [EmptyHeap EXCEPT ![1] = Orientation(0, 0, 0)]
    /\ accel_offset = ZeroOffset
    /\ gyro_offset = ZeroOffset

\* the state after HeadTracker(filter_type, alpha); the record of the call
\* keeps the filter_type it was given
Init ==
    /\ \E filter_type \in FilterTypes, alpha \in Alphas :
          /\ HeadTracker_init(filter_type, alpha)
          /\ last = PlainCall("__init__", "return", <<>>, 0, <<>>)
                    @@ [filter_type |-> filter_type]
    /\ state = "Uninitialized"
    /\ held = None
    /\ returned = None
    /\ n_ops = 0

\* self.filter.update(sensor_data)
filter_update(f, h, sensor_data, current_time) ==
    IF f.name = "Kalman"
    THEN KalmanFilterOrientation_update(f, h, sensor_data, current_time,
                                        NewRef(h))
    ELSE ComplementaryFilter_update(f, h, sensor_data, current_time)

\* a reset that installs a new ComplementaryFilter with the default alpha
filter_reset_to_default(f, h) ==
    [ filter |-> ComplementaryFilter_init(96, NewRef(h)),
      heap   |-> [h EXCEPT ![NewRef(h)] = Orientation(0, 0, 0)] ]

\* self.filter.reset()
filter_reset(f, h) ==
    IF f.name = "Kalman"
    THEN [filter |-> KalmanFilterOrientation_reset(f), heap |-> h]
    ELSE ComplementaryFilter_reset(f, h, NewRef(h))

\* get_orientation that reads a second time when the first read fails
HeadTracker_get_orientation_retrying(budget) ==
    /\ n_ops < budget
    /\ n_ops' = n_ops + 1
    /\ \E raw \in BusAnswers :
         IF raw = OSError
         THEN /\ last' = PlainCall("get_orientation", "OSError", <<>>, 2,
                                   <<"sensor.read", "sensor.read">>)
              /\ UNCHANGED <<filter, heap, accel_offset, gyro_offset, state,
                             held, returned>>
         ELSE \E current_time \in Times :
              LET sensor_data == MPU6050_read(raw, accel_offset, gyro_offset)
                  u == filter_update(filter, heap, sensor_data, current_time)
                  ret == Angles(u.heap[u.ret])
                  hd == Some([ref |-> u.ret, value |-> ret])
                  dt == IF filter.last_time = None THEN None
                        ELSE Some(current_time - Val(filter.last_time))
              IN  /\ filter' = u.filter
                  /\ IF u.raised
                     THEN UNCHANGED <<held, heap, returned>>
                     ELSE /\ held' = hd
                          /\ heap' = Collect(u.heap, u.filter, hd)
                          /\ returned' = Some(ret)
                  /\ last' = Call("get_orientation",
                                  IF u.raised THEN "ZeroDivisionError"
                                              ELSE "return",
                                  <<raw>>, 1,
                                  <<"sensor.read", "filter.update">>,
                                  Some(current_time), dt, Some(sensor_data))
                  /\ UNCHANGED <<accel_offset, gyro_offset, state>>

\* HeadTracker.get_orientation. The bus answers raw, time.time() answers
\* current_time; the caller holds the Orientation it is handed, in place of
\* the one it held.
HeadTracker_get_orientation(budget) ==
    /\ n_ops < budget
    /\ n_ops' = n_ops + 1
    /\ \E raw \in BusAnswers :
         IF raw = OSError
         THEN /\ last' = PlainCall("get_orientation", "OSError", <<>>, 1,
                                   <<"sensor.read">>)
              /\ UNCHANGED <<filter, heap, accel_offset, gyro_offset, state,
                             held, returned>>
         ELSE \E current_time \in Times :
              LET sensor_data == MPU6050_read(raw, accel_offset, gyro_offset)
                  u == filter_update(filter, heap, sensor_data, current_time)
                  ret == Angles(u.heap[u.ret])
                  hd == Some([ref |-> u.ret, value |-> ret])
                  dt == IF filter.last_time = None THEN None
                        ELSE Some(current_time - Val(filter.last_time))
              IN  /\ filter' = u.filter
                  /\ IF u.raised
                     THEN UNCHANGED <<held, heap, returned>>
                     ELSE /\ held' = hd
                          /\ heap' = Collect(u.heap, u.filter, hd)
                          /\ returned' = Some(ret)
                  /\ last' = Call("get_orientation",
                                  IF u.raised THEN "ZeroDivisionError"
                                              ELSE "return",
                                  <<raw>>, 1,
                                  <<"sensor.read", "filter.update">>,
                                  Some(current_time), dt, Some(sensor_data))
                  /\ UNCHANGED <<accel_offset, gyro_offset, state>>

\* HeadTracker.get_raw_data: the caller is handed the SensorData
HeadTracker_get_raw_data(budget) ==
    /\ n_ops < budget
    /\ n_ops' = n_ops + 1
    /\ \E raw \in BusAnswers :
         last' = PlainCall("get_raw_data",
                           IF raw = OSError THEN "OSError" ELSE "return",
                           <<>>, 1, <<"sensor.read">>)
    /\ UNCHANGED <<filter, heap, accel_offset, gyro_offset, state, held,
                   returned>>

\* the record of a calibrate call, with the samples it was called with
CalibrateCall(samples, outcome, reads, n_reads) ==
    PlainCall("calibrate", outcome, reads, n_reads, <<"sensor.calibrate">>)
    @@ [samples |-> samples]

\* calibrate whose loop runs once more than samples
HeadTracker_calibrate_one_more(budget) ==
    /\ n_ops < budget
    /\ n_ops' = n_ops + 1
    /\ \E samples \in 0..MaxSamples :
         \/ \E stream \in Streams(samples + 1) :
              IF samples = 0
              THEN /\ last' = CalibrateCall(samples, "ZeroDivisionError",
                                            stream, 1)
                   /\ UNCHANGED <<accel_offset, gyro_offset, state>>
              ELSE /\ accel_offset' = calibrate_accel_offset(stream, samples)
                   /\ gyro_offset' = calibrate_gyro_offset(stream, samples)
                   /\ state' = "Tracking"
                   /\ last' = CalibrateCall(samples, "return", stream,
                                            samples + 1)
         \/ \E i \in 1..samples :
              /\ last' = CalibrateCall(samples, "OSError", <<>>, i)
              /\ UNCHANGED <<accel_offset, gyro_offset, state>>
    /\ UNCHANGED <<filter, heap, held, returned>>

\* calibrate that also resets the filter when it completes
HeadTracker_calibrate_resets_filter(budget) ==
    /\ n_ops < budget
    /\ n_ops' = n_ops + 1
    /\ \E samples \in 0..MaxSamples :
         \/ \E stream \in Streams(samples) :
              IF samples = 0
              THEN /\ last' = CalibrateCall(samples, "ZeroDivisionError",
                                            stream, 0)
                   /\ UNCHANGED <<accel_offset, gyro_offset, state, filter,
                                  heap>>
              ELSE /\ accel_offset' = calibrate_accel_offset(stream, samples)
                   /\ gyro_offset' = calibrate_gyro_offset(stream, samples)
                   /\ state' = "Tracking"
                   /\ last' = CalibrateCall(samples, "return", stream,
                                            samples)
                   /\ LET u == filter_reset(filter, heap)
                      IN  /\ filter' = u.filter
                          /\ heap' = Collect(u.heap, u.filter, held)
         \/ \E i \in 1..samples :
              /\ last' = CalibrateCall(samples, "OSError", <<>>, i)
              /\ UNCHANGED <<accel_offset, gyro_offset, state, filter, heap>>
    /\ UNCHANGED <<held, returned>>

\* calibrate that clears the offsets before it samples
HeadTracker_calibrate_clears_first(budget) ==
    /\ n_ops < budget
    /\ n_ops' = n_ops + 1
    /\ \E samples \in 0..MaxSamples :
         \/ \E stream \in Streams(samples) :
              IF samples = 0
              THEN /\ last' = CalibrateCall(samples, "ZeroDivisionError",
                                            stream, 0)
                   /\ accel_offset' = ZeroOffset
                   /\ gyro_offset' = ZeroOffset
                   /\ UNCHANGED state
              ELSE /\ accel_offset' = calibrate_accel_offset(stream, samples)
                   /\ gyro_offset' = calibrate_gyro_offset(stream, samples)
                   /\ state' = "Tracking"
                   /\ last' = CalibrateCall(samples, "return", stream,
                                            samples)
         \/ \E i \in 1..samples :
              /\ last' = CalibrateCall(samples, "OSError", <<>>, i)
              /\ accel_offset' = ZeroOffset
              /\ gyro_offset' = ZeroOffset
              /\ UNCHANGED state
    /\ UNCHANGED <<filter, heap, held, returned>>

\* calibrate that takes the mean of no samples to be zero
HeadTracker_calibrate_empty_mean_zero(budget) ==
    /\ n_ops < budget
    /\ n_ops' = n_ops + 1
    /\ \E samples \in 0..MaxSamples :
         \/ \E stream \in Streams(samples) :
              IF samples = 0
              THEN /\ accel_offset' = <<0, 0, -OneG>>
                   /\ gyro_offset' = ZeroOffset
                   /\ state' = "Tracking"
                   /\ last' = CalibrateCall(samples, "return", stream, 0)
              ELSE /\ accel_offset' = calibrate_accel_offset(stream, samples)
                   /\ gyro_offset' = calibrate_gyro_offset(stream, samples)
                   /\ state' = "Tracking"
                   /\ last' = CalibrateCall(samples, "return", stream,
                                            samples)
         \/ \E i \in 1..samples :
              /\ last' = CalibrateCall(samples, "OSError", <<>>, i)
              /\ UNCHANGED <<accel_offset, gyro_offset, state>>
    /\ UNCHANGED <<filter, heap, held, returned>>

\* calibrate that averages readings with the offsets in force subtracted
HeadTracker_calibrate_from_corrected(budget) ==
    /\ n_ops < budget
    /\ n_ops' = n_ops + 1
    /\ \E samples \in 0..MaxSamples :
         \/ \E stream \in Streams(samples) :
              IF samples = 0
              THEN /\ last' = CalibrateCall(samples, "ZeroDivisionError",
                                            stream, 0)
                   /\ UNCHANGED <<accel_offset, gyro_offset, state>>
              ELSE /\ accel_offset' =
                        [k \in 1..3 |->
                           calibrate_accel_offset(stream, samples)[k]
                           - accel_offset[k]]
                   /\ gyro_offset' =
                        [k \in 1..3 |->
                           calibrate_gyro_offset(stream, samples)[k]
                           - gyro_offset[k]]
                   /\ state' = "Tracking"
                   /\ last' = CalibrateCall(samples, "return", stream,
                                            samples)
         \/ \E i \in 1..samples :
              /\ last' = CalibrateCall(samples, "OSError", <<>>, i)
              /\ UNCHANGED <<accel_offset, gyro_offset, state>>
    /\ UNCHANGED <<filter, heap, held, returned>>

\* HeadTracker.calibrate, which is MPU6050.calibrate: samples burst reads,
\* then the two assignments. The i-th read raising ends the call in the
\* loop; samples = 0 ends it in the division.
HeadTracker_calibrate(budget) ==
    /\ n_ops < budget
    /\ n_ops' = n_ops + 1
    /\ \E samples \in 0..MaxSamples :
         \/ \E stream \in Streams(samples) :
              IF samples = 0
              THEN /\ last' = CalibrateCall(samples, "ZeroDivisionError",
                                            stream, 0)
                   /\ UNCHANGED <<accel_offset, gyro_offset, state>>
              ELSE /\ accel_offset' = calibrate_accel_offset(stream, samples)
                   /\ gyro_offset' = calibrate_gyro_offset(stream, samples)
                   /\ state' = "Tracking"
                   /\ last' = CalibrateCall(samples, "return", stream,
                                            samples)
         \/ \E i \in 1..samples :
              /\ last' = CalibrateCall(samples, "OSError", <<>>, i)
              /\ UNCHANGED <<accel_offset, gyro_offset, state>>
    /\ UNCHANGED <<filter, heap, held, returned>>

\* reset that also forgets the calibration
HeadTracker_reset_offsets_too(budget) ==
    /\ n_ops < budget
    /\ n_ops' = n_ops + 1
    /\ LET u == filter_reset(filter, heap)
       IN  /\ filter' = u.filter
           /\ heap' = Collect(u.heap, u.filter, held)
    /\ last' = PlainCall("reset", "return", <<>>, 0, <<"filter.reset">>)
    /\ accel_offset' = ZeroOffset
    /\ gyro_offset' = ZeroOffset
    /\ UNCHANGED <<state, held, returned>>

\* HeadTracker.reset
HeadTracker_reset(budget) ==
    /\ n_ops < budget
    /\ n_ops' = n_ops + 1
    /\ LET u == filter_reset(filter, heap)
       IN  /\ filter' = u.filter
           /\ heap' = Collect(u.heap, u.filter, held)
    /\ last' = PlainCall("reset", "return", <<>>, 0, <<"filter.reset">>)
    /\ UNCHANGED <<accel_offset, gyro_offset, state, held, returned>>

\* a caller of the whole tracker
Next ==
    \/ HeadTracker_get_orientation(MaxOps)
    \/ HeadTracker_get_raw_data(MaxOps)
    \/ HeadTracker_calibrate(MaxOps)
    \/ HeadTracker_reset(MaxOps)

Spec == Init /\ [][Next]_vars

\* a caller that polls the orientation and resets the filter, and never
\* calibrates: the filter sees the scaled samples
PollNext ==
    \/ HeadTracker_get_orientation(MaxPolls)
    \/ HeadTracker_reset(MaxPolls)

PollSpec == Init /\ [][PollNext]_vars

(* ---------------------------------------------------------------------- *)
(* A caller of the filter classes themselves: it constructs one             *)
(* ComplementaryFilter, one KalmanFilterOrientation or one KalmanFilter1D   *)
(* with arguments of its choice and calls its methods                       *)
(* ---------------------------------------------------------------------- *)

\* a caller of a filter makes at most MaxCalls calls
MaxCalls == 3

\* the process_noise, measurement_noise and estimation_error a Kalman filter
\* is constructed with: zero, the default, and another value
ProcessNoises == {0, process_noise, 100}
MeasurementNoises == {0, measurement_noise, 1000}
EstimationErrors == {0, estimation_error}

\* the samples a filter is updated with: the scaled bus answers, and one of
\* a turn rate that takes the yaw several turns away in one step
SensorDatas ==
    {MPU6050_read(raw, ZeroOffset, ZeroOffset) : raw \in RawSamples}
    \cup { [accel_x |-> 0, accel_y |-> 0, accel_z |-> OneG, temp |-> 3653,
            gyro_x |-> 0, gyro_y |-> 0, gyro_z |-> -900] }

\* the new_angle, new_rate and dt KalmanFilter1D.update is called with
NewAngles == {Deg(0), Deg(45)}
NewRates == {0, 10}
Intervals == {1, OneSecond}

\* the constructors
Filter_init ==
    \/ \E alpha \in Alphas :
         /\ filter = ComplementaryFilter_init(alpha, 1)
         /\ heap = [EmptyHeap EXCEPT ![1] = Orientation(0, 0, 0)]
    \/ \E Q \in ProcessNoises, R \in MeasurementNoises :
         /\ filter = KalmanFilterOrientation_init(Q, R)
         /\ heap = EmptyHeap
    \/ \E Q \in ProcessNoises, R \in MeasurementNoises,
          P \in EstimationErrors :
         /\ filter = [name |-> "KalmanFilter1D",
                      kf |-> KalmanFilter1D_init(Q, R, P)]
         /\ heap = EmptyHeap

FilterInit ==
    /\ Filter_init
    /\ accel_offset = ZeroOffset
    /\ gyro_offset = ZeroOffset
    /\ state = "Uninitialized"
    /\ held = None
    /\ returned = None
    /\ last = PlainCall("__init__", "return", <<>>, 0, <<>>)
    /\ n_ops = 0

\* ComplementaryFilter.update or KalmanFilterOrientation.update, called on
\* the filter itself; the caller holds the Orientation it is handed
Filter_update(budget) ==
    /\ filter.name \in {"Complementary", "Kalman"}
    /\ n_ops < budget
    /\ n_ops' = n_ops + 1
    /\ \E sensor_data \in SensorDatas, current_time \in Times :
         LET u == filter_update(filter, heap, sensor_data, current_time)
             ret == Angles(u.heap[u.ret])
             hd == Some([ref |-> u.ret, value |-> ret])
             dt == IF filter.last_time = None THEN None
                   ELSE Some(current_time - Val(filter.last_time))
         IN  /\ filter' = u.filter
             /\ IF u.raised
                THEN UNCHANGED <<held, heap, returned>>
                ELSE /\ held' = hd
                     /\ heap' = Collect(u.heap, u.filter, hd)
                     /\ returned' = Some(ret)
             /\ last' = Call("update",
                             IF u.raised THEN "ZeroDivisionError" ELSE "return",
                             <<>>, 0, <<>>, Some(current_time), dt,
                             Some(sensor_data))
    /\ UNCHANGED <<accel_offset, gyro_offset, state>>

\* ComplementaryFilter.reset or KalmanFilterOrientation.reset, called on the
\* filter itself
Filter_reset(budget) ==
    /\ filter.name \in {"Complementary", "Kalman"}
    /\ n_ops < budget
    /\ n_ops' = n_ops + 1
    /\ LET u == filter_reset(filter, heap)
       IN  /\ filter' = u.filter
           /\ heap' = Collect(u.heap, u.filter, held)
    /\ last' = PlainCall("filter.reset", "return", <<>>, 0, <<>>)
    /\ UNCHANGED <<accel_offset, gyro_offset, state, held, returned>>

\* KalmanFilter1D.update, called on a 1-axis filter of its own; it returns
\* the angle, or raises in its division
KalmanFilter1D_call(budget) ==
    /\ filter.name = "KalmanFilter1D"
    /\ n_ops < budget
    /\ n_ops' = n_ops + 1
    /\ \E new_angle \in NewAngles, new_rate \in NewRates, dt \in Intervals :
         LET kf == KalmanFilter1D_update(filter.kf, new_angle, new_rate, dt)
             raised == KalmanFilter1D_raises(filter.kf)
         IN  /\ filter' = [filter EXCEPT !.kf = kf]
             /\ returned' = IF raised THEN returned ELSE Some(<<kf.angle>>)
             /\ last' = Call("KalmanFilter1D.update",
                             IF raised THEN "ZeroDivisionError" ELSE "return",
                             <<>>, 0, <<>>, None, Some(dt),
                             Some([new_angle |-> new_angle,
                                   new_rate |-> new_rate]))
    /\ UNCHANGED <<heap, accel_offset, gyro_offset, state, held>>

FilterNext ==
    \/ Filter_update(MaxCalls)
    \/ Filter_reset(MaxCalls)
    \/ KalmanFilter1D_call(MaxCalls)

FilterSpec == FilterInit /\ [][FilterNext]_vars

(* ---------------------------------------------------------------------- *)
(* What the claims speak of                                                *)
(* ---------------------------------------------------------------------- *)

\* the yaw the filter stores
FilterYaw ==
    IF filter.name = "Kalman" THEN filter.yaw
    ELSE heap[filter.orientation].yaw

\* the pitch, roll and yaw the filter stores
FilterAngles ==
    IF filter.name = "Kalman"
    THEN <<filter.pitch_filter.angle, filter.roll_filter.angle, filter.yaw>>
    ELSE Angles(heap[filter.orientation])

\* this step is a call
Called == n_ops' = n_ops + 1

\* this step is a get_orientation that returns, so the filter was updated
Updated == Called /\ last'.op = "get_orientation" /\ last'.outcome = "return"

\* the latest call was a get_orientation that returned
AfterUpdate == last.op = "get_orientation" /\ last.outcome = "return"

\* the interval of the latest update fails the guard
IntervalRejected(c) ==
    c.dt # None /\ (Val(c.dt) <= 0 \/ Val(c.dt) > OneSecond)

(* ---------------------------------------------------------------------- *)
(* C1                                                                      *)
(* ---------------------------------------------------------------------- *)

\* C1 as stated: after any sequence of update and reset calls on either
\* filter the stored yaw is >= -180 and strictly < 180.
C1_YawHalfOpen ==
    -HalfTurn <= FilterYaw /\ FilterYaw < HalfTurn

\* C1 amended: after any sequence of update and reset calls on either filter
\* the stored yaw, and the yaw of every returned Orientation, lies in the
\* closed interval [-180, 180]; 180 itself is kept, not wrapped to -180.
C1_YawClosed ==
    /\ -HalfTurn <= FilterYaw /\ FilterYaw <= HalfTurn
    /\ returned # None =>
         -HalfTurn <= Val(returned)[3] /\ Val(returned)[3] <= HalfTurn

\* an accepted update has integrated the yaw up to exactly 180 degrees
C1_Witness ==
    /\ AfterUpdate
    /\ last.dt # None /\ ~IntervalRejected(last)
    /\ FilterYaw = HalfTurn
    /\ Val(returned)[3] = HalfTurn

(* ---------------------------------------------------------------------- *)
(* C2                                                                      *)
(* ---------------------------------------------------------------------- *)

\* C2: a ComplementaryFilter.update whose last_time is set and whose dt is
\* <= 0 or > 1.0 leaves the stored pitch, roll and yaw unchanged, returns
\* the values the preceding update returned, and changes last_time only.
C2_RejectedComplementary ==
    [][ ( /\ Updated
          /\ filter.name = "Complementary"
          /\ filter.last_time # None
          /\ IntervalRejected(last') )
        => ( /\ heap'[filter.orientation] = heap[filter.orientation]
             /\ returned' = returned
             /\ Val(returned') = Angles(heap[filter.orientation])
             /\ filter' = [filter EXCEPT !.last_time = last'.now] ) ]_vars

\* a complementary update was rejected for its interval, after an accepted
\* one had moved the yaw
C2_Witness ==
    /\ AfterUpdate
    /\ filter.name = "Complementary"
    /\ IntervalRejected(last)
    /\ FilterYaw # 0

(* ---------------------------------------------------------------------- *)
(* C3                                                                      *)
(* ---------------------------------------------------------------------- *)

\* C3: a KalmanFilterOrientation.update whose last_time is set and whose dt
\* is <= 0 or > 1.0 returns (pitch_filter.angle, roll_filter.angle, yaw),
\* equal to what the preceding update returned, and leaves angle, bias, P
\* and K of both 1-axis filters and the yaw unchanged; only last_time changes.
C3_RejectedKalman ==
    [][ ( /\ Updated
          /\ filter.name = "Kalman"
          /\ filter.last_time # None
          /\ IntervalRejected(last') )
        => ( /\ returned' = returned
             /\ Val(returned') = <<filter.pitch_filter.angle,
                                   filter.roll_filter.angle, filter.yaw>>
             /\ filter'.pitch_filter = filter.pitch_filter
             /\ filter'.roll_filter = filter.roll_filter
             /\ filter'.yaw = filter.yaw
             /\ filter' = [filter EXCEPT !.last_time = last'.now] ) ]_vars

\* a Kalman update was rejected for its interval, after an accepted one had
\* moved the angles
C3_Witness ==
    /\ AfterUpdate
    /\ filter.name = "Kalman"
    /\ IntervalRejected(last)
    /\ filter.yaw # 0
    /\ filter.pitch_filter.angle # 0
    /\ filter.pitch_filter.K # 0

(* ---------------------------------------------------------------------- *)
(* C4                                                                      *)
(* ---------------------------------------------------------------------- *)

\* the gyro rates a sample could have carried instead
OtherRates == {-GYRO_SCALE, 0, 7 * GYRO_SCALE}

\* C4: the first ComplementaryFilter.update (last_time absent) sets last_time
\* to the current time, sets pitch and roll to the accelerometer tilt of the
\* sample, leaves yaw at its value, which is 0, and integrates nothing: with
\* any other gyro rates in the sample the result is the same.
C4_FirstUpdateSeeds ==
    [][ ( /\ Updated
          /\ filter.name = "Complementary"
          /\ filter.last_time = None )
        => LET sd == Val(last'.sensor_data)
               tilt == accel_angles(sd)
               o == heap'[filter'.orientation]
           IN  /\ filter' = [filter EXCEPT !.last_time = last'.now]
               /\ Angles(o) = <<tilt[1], tilt[2], 0>>
               /\ heap[filter.orientation].yaw = 0
               /\ Val(returned') = Angles(o)
               /\ \A gx \in OtherRates, gy \in OtherRates, gz \in OtherRates :
                    LET other == [sd EXCEPT !.gyro_x = gx, !.gyro_y = gy,
                                            !.gyro_z = gz]
                        u == ComplementaryFilter_update(filter, heap, other,
                                                        Val(last'.now))
                    IN  /\ u.filter = filter'
                        /\ u.heap[u.ret] = o ]_vars

\* a first complementary update has seeded a tilted orientation from a
\* sample whose gyro rates are not zero
C4_Witness ==
    /\ AfterUpdate
    /\ filter.name = "Complementary"
    /\ last.dt = None
    /\ Val(last.sensor_data).gyro_z # 0
    /\ Val(last.sensor_data).gyro_x # 0
    /\ FilterAngles[1] # 0
    /\ n_ops = 1

(* ---------------------------------------------------------------------- *)
(* C5                                                                      *)
(* ---------------------------------------------------------------------- *)

\* what the first update of a freshly constructed ComplementaryFilter
\* returns for a sample
FreshFirstUpdate(alpha, sensor_data, current_time) ==
    LET u == ComplementaryFilter_update(
                 ComplementaryFilter_init(alpha, 1),
                 [EmptyHeap EXCEPT ![1] = Orientation(0, 0, 0)],
                 sensor_data, current_time)
    IN  Angles(u.heap[u.ret])

\* C5: from any reachable state of a ComplementaryFilter, reset() followed
\* by update(sample) returns the pitch, roll and yaw that the first
\* update(sample) of a freshly constructed filter returns.
C5_ResetThenUpdate ==
    [][ ( /\ Updated
          /\ filter.name = "Complementary"
          /\ last.op = "reset" )
        => /\ Val(returned') = FreshFirstUpdate(filter.alpha,
                                                Val(last'.sensor_data),
                                                Val(last'.now))
           /\ Angles(heap'[filter'.orientation]) = Val(returned') ]_vars

\* the complementary filter had integrated a yaw, was reset, and the update
\* after the reset returned a tilt with yaw 0
C5_Witness ==
    /\ AfterUpdate
    /\ filter.name = "Complementary"
    /\ last.dt = None
    /\ n_ops = 4
    /\ held # None /\ Val(held).ref # 1
    /\ Val(returned)[3] = 0
    /\ Val(returned)[2] # 0

(* ---------------------------------------------------------------------- *)
(* C6                                                                      *)
(* ---------------------------------------------------------------------- *)

\* C6: get_orientation makes one sensor read, then one update of the filter;
\* the sample handed to the filter is the scaled raw sample minus the
\* offsets on all six axes, and the value returned is the filter's result.
C6_GetOrientation ==
    AfterUpdate =>
        LET raw == last.reads[1]
            sd == Val(last.sensor_data)
        IN  /\ last.n_reads = 1
            /\ Len(last.reads) = 1
            /\ last.calls = <<"sensor.read", "filter.update">>
            /\ sd.accel_x = ((raw[1] * OneG) \div ACCEL_SCALE) - accel_offset[1]
            /\ sd.accel_y = ((raw[2] * OneG) \div ACCEL_SCALE) - accel_offset[2]
            /\ sd.accel_z = ((raw[3] * OneG) \div ACCEL_SCALE) - accel_offset[3]
            /\ sd.gyro_x = (raw[5] \div GYRO_SCALE) - gyro_offset[1]
            /\ sd.gyro_y = (raw[6] \div GYRO_SCALE) - gyro_offset[2]
            /\ sd.gyro_z = (raw[7] \div GYRO_SCALE) - gyro_offset[3]
            /\ filter.last_time = last.now
            /\ Val(returned) = FilterAngles
            /\ Val(held).value = Val(returned)

\* get_orientation has returned on a tracker whose six offsets are not zero
C6_Witness ==
    /\ AfterUpdate
    /\ \A k \in 1..3 : accel_offset[k] # 0
    /\ \A k \in 1..3 : gyro_offset[k] # 0
    /\ FilterAngles # <<0, 0, 0>>

(* ---------------------------------------------------------------------- *)
(* C7                                                                      *)
(* ---------------------------------------------------------------------- *)

\* the scaled accelerations (k in 1..3) and rates (k in 5..7) of the n first
\* samples of a stream, added up
RECURSIVE Total(_, _, _)
Total(stream, n, k) ==
    IF n = 0 THEN 0
    ELSE Total(stream, n - 1, k)
         + (IF k <= 3 THEN (stream[n][k] * OneG) \div ACCEL_SCALE
                      ELSE stream[n][k] \div GYRO_SCALE)

\* m is total / n, rounded down
MeanIs(m, total, n) == n * m <= total /\ total < n * (m + 1)

\* C7: calibrate over N >= 1 samples sets accel_offset to the per-axis mean
\* of the scaled accelerations, less 1.0 on the Z axis, and gyro_offset to
\* the per-axis mean of the scaled rates, whatever the offsets were; over a
\* constant stream they are the scaled sample itself, less 1.0 on accel Z.
C7_Calibrate ==
    (last.op = "calibrate" /\ last.outcome = "return") =>
        LET stream == last.reads
            n == Len(stream)
        IN  /\ n >= 1
            /\ last.n_reads = n
            /\ MeanIs(accel_offset[1], Total(stream, n, 1), n)
            /\ MeanIs(accel_offset[2], Total(stream, n, 2), n)
            /\ MeanIs(accel_offset[3] + OneG, Total(stream, n, 3), n)
            /\ MeanIs(gyro_offset[1], Total(stream, n, 5), n)
            /\ MeanIs(gyro_offset[2], Total(stream, n, 6), n)
            /\ MeanIs(gyro_offset[3], Total(stream, n, 7), n)
            /\ (\A i \in 1..n : stream[i] = stream[1]) =>
                 /\ accel_offset =
                      << (stream[1][1] * OneG) \div ACCEL_SCALE,
                         (stream[1][2] * OneG) \div ACCEL_SCALE,
                         ((stream[1][3] * OneG) \div ACCEL_SCALE) - OneG >>
                 /\ gyro_offset =
                      << stream[1][5] \div GYRO_SCALE,
                         stream[1][6] \div GYRO_SCALE,
                         stream[1][7] \div GYRO_SCALE >>

\* a second calibrate has averaged two different samples over the offsets
\* of the first
C7_Witness ==
    /\ last.op = "calibrate" /\ last.outcome = "return"
    /\ Len(last.reads) = 2
    /\ last.reads[1] # last.reads[2]
    /\ n_ops >= 2
    /\ state = "Tracking"

(* ---------------------------------------------------------------------- *)
(* C8                                                                      *)
(* ---------------------------------------------------------------------- *)

\* C8: the offsets change in calibrate only; get_orientation, get_raw_data
\* and reset keep them, and reset clears the filter state while keeping them.
C8_OffsetsOnlyByCalibrate ==
    [][ /\ (accel_offset' # accel_offset \/ gyro_offset' # gyro_offset)
            => (Called /\ last'.op = "calibrate" /\ last'.outcome = "return")
        /\ (Called /\ last'.op = "reset")
            => /\ accel_offset' = accel_offset
               /\ gyro_offset' = gyro_offset
               /\ filter'.last_time = None
               /\ FilterAngles' = <<0, 0, 0>> ]_vars

\* a calibrated tracker whose filter had been updated was reset, and holds
\* its offsets
C8_Witness ==
    /\ last.op = "reset"
    /\ state = "Tracking"
    /\ accel_offset # ZeroOffset
    /\ gyro_offset # ZeroOffset
    /\ returned # None
    /\ filter.last_time = None

(* ---------------------------------------------------------------------- *)
(* C9                                                                      *)
(* ---------------------------------------------------------------------- *)

\* C9 as stated: get_orientation produces no orientation in the
\* Uninitialized state, before a calibrate has completed.
C9_NoOrientationBeforeCalibrate ==
    AfterUpdate => state = "Tracking"

\* C9 amended: the tracker leaves Uninitialized only by a calibrate that
\* completes, which takes it to Tracking from either state; reset and every
\* other call keep the state, and Tracking is never left. get_orientation is
\* not held back by the lifecycle: before any calibrate has completed it
\* produces an orientation, from the scaled sample with the zero offsets.
C9_Lifecycle ==
    [][ /\ (state' # state)
            => /\ state = "Uninitialized" /\ state' = "Tracking"
               /\ Called /\ last'.op = "calibrate" /\ last'.outcome = "return"
        /\ (Called /\ last'.op = "calibrate" /\ last'.outcome = "return")
            => state' = "Tracking"
        /\ (Updated /\ state = "Uninitialized")
            => LET raw == last'.reads[1]
                   sd == Val(last'.sensor_data)
               IN  /\ state' = "Uninitialized"
                   /\ accel_offset = ZeroOffset /\ gyro_offset = ZeroOffset
                   /\ sd.accel_x = (raw[1] * OneG) \div ACCEL_SCALE
                   /\ sd.accel_y = (raw[2] * OneG) \div ACCEL_SCALE
                   /\ sd.accel_z = (raw[3] * OneG) \div ACCEL_SCALE
                   /\ sd.gyro_x = raw[5] \div GYRO_SCALE
                   /\ sd.gyro_y = raw[6] \div GYRO_SCALE
                   /\ sd.gyro_z = raw[7] \div GYRO_SCALE
                   /\ returned' # None
                   /\ Val(returned') = FilterAngles' ]_vars

\* an uncalibrated tracker has returned an orientation that is not zero
C9_Witness ==
    /\ AfterUpdate
    /\ state = "Uninitialized"
    /\ Val(returned) # <<0, 0, 0>>

(* ---------------------------------------------------------------------- *)
(* C10                                                                     *)
(* ---------------------------------------------------------------------- *)

\* C10: an Orientation handed to the caller keeps the pitch, roll and yaw it
\* had when it was returned, whatever call is made on the filter next, for
\* either filter.
C10_ReturnedOrientationKept ==
    [][ (held # None /\ heap'[Val(held).ref].live)
        => Angles(heap'[Val(held).ref]) = Val(held).value ]_vars

(* ---------------------------------------------------------------------- *)
(* C11                                                                     *)
(* ---------------------------------------------------------------------- *)

\* a 1-axis filter as KalmanFilter1D.__init__ leaves it, given its Q and R
AsConstructed(kf, Q, R) ==
    /\ kf.angle = 0 /\ kf.bias = 0 /\ kf.K = 0
    /\ kf.P = estimation_error
    /\ kf.Q = Q /\ kf.R = R

\* C11: KalmanFilterOrientation.reset, from any reachable state, leaves the
\* filter as its construction did: both 1-axis filters with angle 0, bias 0,
\* P 1.0, K 0 and the Q and R they were constructed with (which update never
\* changes), yaw 0 and no last-update time.
C11_ResetRestoresConstruction ==
    [][ (Called /\ last'.op = "filter.reset" /\ filter.name = "Kalman")
        => /\ AsConstructed(filter'.pitch_filter,
                            filter.pitch_filter.Q, filter.pitch_filter.R)
           /\ AsConstructed(filter'.roll_filter,
                            filter.roll_filter.Q, filter.roll_filter.R)
           /\ filter'.yaw = 0
           /\ filter'.last_time = None ]_vars

(* ---------------------------------------------------------------------- *)
(* C12                                                                     *)
(* ---------------------------------------------------------------------- *)

Min(a, b) == IF a <= b THEN a ELSE b
Max(a, b) == IF a <= b THEN b ELSE a

\* the interval of call c passed the guard
IntervalAccepted(c) ==
    c.dt # None /\ 0 < Val(c.dt) /\ Val(c.dt) <= OneSecond

\* this step is an accepted step of the complementary filter
ComplementaryStep ==
    Updated /\ filter.name = "Complementary" /\ IntervalAccepted(last')

\* C12: for alpha in (0,1) and an accepted step (0 < dt <= 1.0), the pitch
\* stored by ComplementaryFilter.update lies between prior_pitch + gyro_x*dt
\* and the accelerometer pitch, inclusive, and the roll likewise.
C12_BlendBetween ==
    [][ (ComplementaryStep /\ 0 < filter.alpha /\ filter.alpha < AlphaOne)
        => LET prior == heap[filter.orientation]
               new == heap'[filter'.orientation]
               sd == Val(last'.sensor_data)
               dt == Val(last'.dt)
               tilt == accel_angles(sd)
               gyro_pitch == prior.pitch + sd.gyro_x * dt
               gyro_roll == prior.roll + sd.gyro_y * dt
           IN  /\ Min(gyro_pitch, tilt[1]) <= new.pitch
               /\ new.pitch <= Max(gyro_pitch, tilt[1])
               /\ Min(gyro_roll, tilt[2]) <= new.roll
               /\ new.roll <= Max(gyro_roll, tilt[2]) ]_vars

\* an accepted complementary step has stored a pitch and a roll that are not
\* the accelerometer's, so the gyro-integrated values differed from them
C12_Witness ==
    /\ AfterUpdate
    /\ filter.name = "Complementary"
    /\ IntervalAccepted(last)
    /\ FilterAngles[1] # accel_angles(Val(last.sensor_data))[1]
    /\ FilterAngles[2] # accel_angles(Val(last.sensor_data))[2]

(* ---------------------------------------------------------------------- *)
(* C13                                                                     *)
(* ---------------------------------------------------------------------- *)

\* the 1-axis Kalman filters there are
KalmanFilters ==
    IF filter.name = "Kalman" THEN {filter.pitch_filter, filter.roll_filter}
    ELSE IF filter.name = "KalmanFilter1D" THEN {filter.kf}
    ELSE {}

\* C13: for Q > 0, R > 0 and an initial P >= 0, the gain K computed by every
\* KalmanFilter1D.update of any sequence of updates satisfies 0 <= K < 1.
C13_GainBelowOne ==
    \A kf \in KalmanFilters :
        (kf.Q > 0 /\ kf.R > 0) => (0 <= kf.K /\ kf.K < KalmanOne /\ kf.P >= 0)

\* a 1-axis filter with Q > 0 and R > 0 constructed with P = 0 has computed
\* a gain, which is Q / (Q + R), below one half
C13_Witness ==
    /\ filter.name = "KalmanFilter1D"
    /\ last.op = "KalmanFilter1D.update" /\ last.outcome = "return"
    /\ n_ops = 1
    /\ filter.kf.Q > 0 /\ filter.kf.R > 0
    /\ 0 < filter.kf.K /\ 2 * filter.kf.K < KalmanOne

(* ---------------------------------------------------------------------- *)
(* C14                                                                     *)
(* ---------------------------------------------------------------------- *)

\* C14: when the sensor read of get_orientation fails, the failure reaches
\* the caller after that one read, the filter's update is not called, and
\* the filter state (orientation, last_time, the Kalman angles, P and yaw)
\* and the calibration offsets are as they were.
C14_ReadFailure ==
    [][ (Called /\ last'.op = "get_orientation" /\ last'.outcome = "OSError")
        => /\ last'.n_reads = 1
           /\ last'.calls = <<"sensor.read">>
           /\ filter' = filter
           /\ heap' = heap
           /\ accel_offset' = accel_offset
           /\ gyro_offset' = gyro_offset
           /\ returned' = returned
           /\ held' = held ]_vars

\* the read failed on a calibrated tracker whose filter had been updated
C14_Witness ==
    /\ last.op = "get_orientation" /\ last.outcome = "OSError"
    /\ filter.last_time # None
    /\ returned # None
    /\ accel_offset # ZeroOffset
    /\ gyro_offset # ZeroOffset

(* ---------------------------------------------------------------------- *)
(* C15                                                                     *)
(* ---------------------------------------------------------------------- *)

\* this step is a calibrate call
Calibrated == Called /\ last'.op = "calibrate"

\* C15 as stated: calibrate(sample_count) whose reads do not fail always
\* runs to completion, with exactly sample_count reads, and returns.
C15_CalibrateCompletes ==
    [][ (Calibrated /\ last'.outcome # "OSError")
        => /\ last'.outcome = "return"
           /\ last'.n_reads = last'.samples ]_vars

\* C15 amended: calibrate(sample_count) with sample_count >= 1 whose reads
\* do not fail makes exactly sample_count reads, then assigns the two
\* offsets and returns; it never makes more than sample_count reads. With
\* sample_count = 0 it makes no read and ends in ZeroDivisionError; a call
\* that does not return assigns no offset.
C15_CalibrateRuns ==
    [][ Calibrated
        => /\ last'.n_reads <= last'.samples
           /\ (last'.samples >= 1 /\ last'.outcome # "OSError")
                => /\ last'.outcome = "return"
                   /\ last'.n_reads = last'.samples
                   /\ Len(last'.reads) = last'.samples
                   /\ accel_offset' =
                        calibrate_accel_offset(last'.reads, last'.samples)
                   /\ gyro_offset' =
                        calibrate_gyro_offset(last'.reads, last'.samples)
           /\ (last'.samples = 0)
                => /\ last'.outcome = "ZeroDivisionError"
                   /\ last'.n_reads = 0
           /\ (last'.outcome # "return")
                => /\ accel_offset' = accel_offset
                   /\ gyro_offset' = gyro_offset ]_vars

\* a calibrate over the most samples has returned on a calibrated tracker
C15_Witness ==
    /\ last.op = "calibrate" /\ last.outcome = "return"
    /\ last.samples = MaxSamples
    /\ last.n_reads = MaxSamples
    /\ n_ops >= 2

(* ---------------------------------------------------------------------- *)
(* C16                                                                     *)
(* ---------------------------------------------------------------------- *)

\* this step is a KalmanFilter1D.update called on a filter of its own
KalmanCalled == Called /\ last'.op = "KalmanFilter1D.update"

\* C16 as stated: with R exactly 0, KalmanFilter1D.update does not validate
\* R and its gain computation P / (P + R) fails with a division by zero,
\* which reaches the caller.
C16_ZeroNoiseRaises ==
    [][ (KalmanCalled /\ filter.kf.R = 0)
        => last'.outcome = "ZeroDivisionError" ]_vars

\* C16 amended: with R exactly 0, which neither the constructor nor update
\* validates, the gain P / (P + R) is exactly 1 as long as P + Q > 0: the
\* update returns the measured angle and leaves P at 0. The division fails,
\* and the ZeroDivisionError reaches the caller, only when P + Q is 0 as
\* well (with Q = 0, from the second update on); the filter is then left
\* with the predicted angle and its K and P unchanged. No update of a
\* filter with P + Q + R > 0 fails.
C16_ZeroNoise ==
    [][ /\ (KalmanCalled /\ filter.kf.R = 0 /\ filter.kf.P + filter.kf.Q > 0)
            => /\ last'.outcome = "return"
               /\ filter'.kf.K = KalmanOne
               /\ filter'.kf.angle = Val(last'.sensor_data).new_angle
               /\ filter'.kf.P = 0
               /\ returned' = Some(<<Val(last'.sensor_data).new_angle>>)
        /\ (KalmanCalled /\ filter.kf.R = 0 /\ filter.kf.P + filter.kf.Q = 0)
            => /\ last'.outcome = "ZeroDivisionError"
               /\ filter'.kf.angle =
                    filter.kf.angle
                    + Val(last'.dt)
                      * (Val(last'.sensor_data).new_rate - filter.kf.bias)
               /\ filter'.kf.K = filter.kf.K
               /\ filter'.kf.P = filter.kf.P
               /\ returned' = returned
        /\ (KalmanCalled /\ last'.outcome = "ZeroDivisionError")
            => filter.kf.R = 0 /\ filter.kf.P + filter.kf.Q = 0
        /\ (Called /\ last'.op = "update"
                   /\ last'.outcome = "ZeroDivisionError")
            => /\ filter.pitch_filter.R = 0
               /\ filter.pitch_filter.P + filter.pitch_filter.Q = 0
               /\ returned' = returned ]_vars

\* a 1-axis filter with R = 0 has returned from an update with gain 1, and
\* its next update has raised
C16_Witness ==
    /\ filter.name = "KalmanFilter1D"
    /\ last.op = "KalmanFilter1D.update"
    /\ last.outcome = "ZeroDivisionError"
    /\ filter.kf.R = 0
    /\ filter.kf.K = KalmanOne

(* ---------------------------------------------------------------------- *)
(* C17                                                                     *)
(* ---------------------------------------------------------------------- *)

\* the attributes of the two filter classes
ComplementaryFields == {"name", "alpha", "orientation", "last_time"}
KalmanFields == {"name", "pitch_filter", "roll_filter", "yaw", "last_time"}

\* C17: the filter of a HeadTracker is of the variant selected at
\* construction (Kalman for the filter_type "kalman", Complementary for any
\* other) and no call changes the variant: after any sequence of calibrate,
\* get_orientation, get_raw_data and reset calls it is the same.
C17_VariantFixed ==
    [][ /\ (last.op = "__init__")
            => (filter.name = "Kalman" <=> last.filter_type = "kalman")
        /\ filter'.name = filter.name
        /\ filter'.name \in {"Complementary", "Kalman"}
        /\ (filter'.name = "Complementary")
            => /\ DOMAIN filter' = ComplementaryFields
               /\ filter'.alpha = filter.alpha
        /\ (filter'.name = "Kalman")
            => DOMAIN filter' = KalmanFields ]_vars

\* a tracker constructed with the Kalman filter was calibrated, polled and
\* reset
C17_Witness ==
    /\ filter.name = "Kalman"
    /\ last.op = "reset"
    /\ state = "Tracking"
    /\ returned # None

(* ---------------------------------------------------------------------- *)
(* C18                                                                     *)
(* ---------------------------------------------------------------------- *)

\* v is exact / AlphaOne, rounded down to the angle unit
BlendIs(v, exact) == v * AlphaOne <= exact /\ exact < (v + 1) * AlphaOne

\* yaw is what the two loops make of the integrated value raw: raw itself
\* when it is within the half turns, else the value a whole number of turns
\* away that the loop stops at
NormalizedIs(yaw, raw) ==
    /\ (yaw - raw) % FullTurn = 0
    /\ (raw > HalfTurn) => (-HalfTurn < yaw /\ yaw <= HalfTurn)
    /\ (raw < -HalfTurn) => (-HalfTurn <= yaw /\ yaw < HalfTurn)
    /\ (-HalfTurn <= raw /\ raw <= HalfTurn) => yaw = raw

\* C18: on an accepted ComplementaryFilter step the new pitch is
\* alpha*(prior_pitch + gyro_x*dt) + (1-alpha)*accel_pitch, the new roll is
\* alpha*(prior_roll + gyro_y*dt) + (1-alpha)*accel_roll and the new yaw is
\* the normalization of prior_yaw + gyro_z*dt; alpha 0.98, prior pitch 10,
\* gyro_x 5, dt 0.02 and accel_pitch 9 give pitch 10.078 (the example is
\* computed in thousandths of a degree and of a second).
C18_StepFormula ==
    [][ /\ blend(98, 10000 + 5 * 20, 9000) = 10078
        /\ ComplementaryStep
            => LET prior == heap[filter.orientation]
                   new == heap'[filter'.orientation]
                   sd == Val(last'.sensor_data)
                   dt == Val(last'.dt)
                   alpha == filter.alpha
                   tilt == accel_angles(sd)
               IN  /\ BlendIs(new.pitch,
                              alpha * (prior.pitch + sd.gyro_x * dt)
                              + (AlphaOne - alpha) * tilt[1])
                   /\ BlendIs(new.roll,
                              alpha * (prior.roll + sd.gyro_y * dt)
                              + (AlphaOne - alpha) * tilt[2])
                   /\ NormalizedIs(new.yaw, prior.yaw + sd.gyro_z * dt) ]_vars

\* an accepted complementary step with a pitch rate and a yaw rate has
\* stored a pitch that is not the accelerometer's and a yaw that is not zero
C18_Witness ==
    /\ AfterUpdate
    /\ filter.name = "Complementary"
    /\ IntervalAccepted(last)
    /\ Val(last.sensor_data).gyro_x # 0
    /\ Val(last.sensor_data).gyro_z # 0
    /\ FilterAngles[1] # accel_angles(Val(last.sensor_data))[1]
    /\ FilterAngles[3] # 0

(* ---------------------------------------------------------------------- *)
(* C19                                                                     *)
(* ---------------------------------------------------------------------- *)

\* this step is an accepted step of a filter called on its own, which
\* returned
FilterStep ==
    /\ Called /\ last'.op = "update" /\ last'.outcome = "return"
    /\ IntervalAccepted(last')

\* C19: the yaw normalisation of both filters ends and stores a value a
\* whole number of turns of 360 away from the integrated yaw, within the
\* half turns; yaw 179 with gyro_z 50 and dt 0.1 is integrated to 184 and
\* normalised to -176.
C19_NormalizedByTurns ==
    [][ /\ normalize_yaw(Deg(179) + Deg(5)) = Deg(-176)
        /\ FilterStep
            => LET raw == FilterYaw
                          + Val(last'.sensor_data).gyro_z * Val(last'.dt)
               IN  /\ (FilterYaw' - raw) % FullTurn = 0
                   /\ -HalfTurn <= FilterYaw'
                   /\ FilterYaw' <= HalfTurn ]_vars

\* the Kalman filter has integrated a step of 900 degrees, which is two
\* turns or more away from every normalised yaw
C19_Witness ==
    /\ last.op = "update" /\ last.outcome = "return"
    /\ IntervalAccepted(last)
    /\ filter.name = "Kalman"
    /\ Val(last.sensor_data).gyro_z * Val(last.dt) <= -Deg(900)

(* ---------------------------------------------------------------------- *)
(* C20                                                                     *)
(* ---------------------------------------------------------------------- *)

\* C20: after every update of either filter, the rejected ones included,
\* last_time is the time of that call, and the interval of a call is taken
\* from the call before it. So when a call at t was rejected, a call at t'
\* with 0 < t' - t <= 1.0 is accepted and integrates over t' - t only: the
\* yaw moves by gyro_z * (t' - t), and the complementary pitch is blended
\* from prior_pitch + gyro_x * (t' - t).
C20_LastTimeFollowsCalls ==
    [][ Updated
        => /\ filter'.last_time = last'.now
           /\ (filter.last_time # None)
                => last'.dt = Some(Val(last'.now) - Val(filter.last_time))
           /\ (AfterUpdate /\ IntervalRejected(last)
               /\ 0 < Val(last'.now) - Val(last.now)
               /\ Val(last'.now) - Val(last.now) <= OneSecond)
                => LET dt == Val(last'.now) - Val(last.now)
                       sd == Val(last'.sensor_data)
                   IN  /\ IntervalAccepted(last')
                       /\ NormalizedIs(FilterYaw', FilterYaw + sd.gyro_z * dt)
                       /\ (filter.name = "Complementary")
                            => BlendIs(FilterAngles'[1],
                                 filter.alpha * (FilterAngles[1] + sd.gyro_x * dt)
                                 + (AlphaOne - filter.alpha)
                                   * accel_angles(sd)[1]) ]_vars

\* an update was rejected because the clock had gone back, at a time that
\* leaves room for a call within the next second, and last_time is the time
\* of the rejected call
C20_Witness ==
    /\ AfterUpdate
    /\ last.dt # None
    /\ Val(last.dt) < 0
    /\ filter.last_time = last.now
    /\ Val(last.now) + OneSecond <= MaxTime
    /\ n_ops < MaxPolls

(* ---------------------------------------------------------------------- *)
(* C21                                                                     *)
(* ---------------------------------------------------------------------- *)

\* v is num / den, rounded down (den > 0)
QuotientIs(v, num, den) == v * den <= num /\ num < (v + 1) * den

\* this step is the first update of a KalmanFilter1D constructed with the
\* defaults Q = 0.001, R = 0.03, P = 1.0
FirstDefaultUpdate ==
    /\ KalmanCalled
    /\ n_ops = 0
    /\ filter.kf.Q = process_noise
    /\ filter.kf.R = measurement_noise
    /\ filter.kf.P = estimation_error

\* C21 as stated: on the first update of a KalmanFilter1D with Q = 0.001,
\* R = 0.03 and P = 1.0 the gain is K = 1.0 / 1.03.
C21_FirstGainIgnoresQ ==
    [][ FirstDefaultUpdate
        => QuotientIs(filter'.kf.K, estimation_error * KalmanOne,
                      estimation_error + measurement_noise) ]_vars

\* C21 amended: the update predicts (angle += dt * (rate - bias), P += Q),
\* then computes the gain K = P / (P + R) from the P that includes Q, then
\* corrects (angle += K * (measured - angle), P = (1 - K) * P). On the first
\* update with Q = 0.001, R = 0.03, P = 1.0 the gain is 1.001 / 1.031, which
\* is 0.9709 to four places and is not 1.0 / 1.03.
C21_FirstGain ==
    [][ FirstDefaultUpdate
        => LET kf == filter.kf
               new == filter'.kf
               args == Val(last'.sensor_data)
               predicted == kf.angle + Val(last'.dt) * (args.new_rate - kf.bias)
           IN  /\ QuotientIs(new.K, (kf.P + kf.Q) * KalmanOne,
                             kf.P + kf.Q + kf.R)
               /\ new.K = 9709
               /\ QuotientIs(new.angle - predicted,
                             new.K * (args.new_angle - predicted), KalmanOne)
               /\ QuotientIs(new.P, (KalmanOne - new.K) * (kf.P + kf.Q),
                             KalmanOne) ]_vars

\* a KalmanFilter1D with the default noise has made its first update, on a
\* measurement and a rate that are not zero
C21_Witness ==
    /\ filter.name = "KalmanFilter1D"
    /\ last.op = "KalmanFilter1D.update" /\ last.outcome = "return"
    /\ n_ops = 1
    /\ filter.kf.Q = process_noise /\ filter.kf.R = measurement_noise
    /\ filter.kf.K = 9709
    /\ Val(last.sensor_data).new_angle # 0
    /\ Val(last.sensor_data).new_rate # 0

(* ---------------------------------------------------------------------- *)
(* C22                                                                     *)
(* ---------------------------------------------------------------------- *)

\* the update that made new of kf left bias, Q and R alone
NoiseAndBiasKept(kf, new) ==
    /\ new.bias = kf.bias
    /\ new.Q = kf.Q
    /\ new.R = kf.R
    /\ DOMAIN new = {"Q", "R", "P", "K", "angle", "bias"}

\* C22: KalmanFilter1D.update never modifies bias, Q or R: over any sequence
\* of updates of a 1-axis filter, and of KalmanFilterOrientation updates
\* without reset, bias stays 0 and Q and R keep the values the filter was
\* configured with; only angle, P and K change.
C22_BiasAndNoiseKept ==
    [][ /\ KalmanCalled => NoiseAndBiasKept(filter.kf, filter'.kf)
        /\ (Called /\ last'.op = "update" /\ filter.name = "Kalman")
            => /\ NoiseAndBiasKept(filter.pitch_filter, filter'.pitch_filter)
               /\ NoiseAndBiasKept(filter.roll_filter, filter'.roll_filter)
        /\ \A kf \in KalmanFilters : kf.bias = 0 ]_vars

\* a 1-axis filter configured with noise that is not the default has made
\* two updates that changed its angle, P and K
C22_Witness ==
    /\ filter.name = "KalmanFilter1D"
    /\ n_ops >= 2
    /\ last.outcome = "return"
    /\ filter.kf.Q = 100 /\ filter.kf.R = 1000
    /\ filter.kf.angle # 0
    /\ filter.kf.K # 0
    /\ filter.kf.P # estimation_error

(* ---------------------------------------------------------------------- *)
(* C23                                                                     *)
(* ---------------------------------------------------------------------- *)

\* what a 1-axis filter's division reads besides the angle
Covariance(kf) == <<kf.P, kf.Q, kf.R>>

\* what the yaw of the next update is computed from, besides gyro_z
YawView(f, h) ==
    IF f.name = "Kalman"
    THEN <<f.yaw, f.last_time, Covariance(f.pitch_filter),
           Covariance(f.roll_filter)>>
    ELSE <<h[f.orientation].yaw, f.last_time>>

\* what the Kalman pitch of the next update is computed from, besides the
\* accelerometer pitch and gyro_x
PitchView(f) == <<f.pitch_filter, f.last_time>>

\* what the Kalman roll of the next update is computed from, besides the
\* accelerometer roll and gyro_y: the roll filter is reached only when the
\* pitch filter did not raise
RollView(f) == <<f.roll_filter, f.last_time, Covariance(f.pitch_filter)>>

\* another angle than a
OtherAngle(a) == IF a = Deg(7) THEN Deg(-30) ELSE Deg(7)

\* the filter that differs from f in pitch and roll and agrees with it on
\* what the yaw is computed from
YawTwins(f, h) ==
    IF f.name = "Kalman"
    THEN { [filter |-> [f EXCEPT !.pitch_filter.angle = p,
                                 !.roll_filter.angle = r],
            heap |-> h] :
           p \in {OtherAngle(f.pitch_filter.angle)},
           r \in {OtherAngle(f.roll_filter.angle)} }
    ELSE { [filter |-> f,
            heap |-> [h EXCEPT ![f.orientation].pitch = p,
                               ![f.orientation].roll = r]] :
           p \in {OtherAngle(h[f.orientation].pitch)},
           r \in {OtherAngle(h[f.orientation].roll)} }

\* the Kalman filter that differs from f in roll and yaw only
PitchTwins(f) ==
    { [f EXCEPT !.roll_filter.angle = r, !.yaw = y] :
      r \in {OtherAngle(f.roll_filter.angle)},
      y \in {OtherAngle(f.yaw)} }

\* the Kalman filter that differs from f in pitch and yaw only
RollTwins(f) ==
    { [f EXCEPT !.pitch_filter.angle = p, !.yaw = y] :
      p \in {OtherAngle(f.pitch_filter.angle)},
      y \in {OtherAngle(f.yaw)} }

\* another rate than g
OtherRate(g) == IF g = 7 THEN -3 ELSE 7

\* samples close to sd: two of its accelerations swapped or one replaced,
\* and two of its rates replaced
SamplesLike(sd) ==
    { [ accel_x |-> a[1], accel_y |-> a[2], accel_z |-> a[3],
        temp |-> sd.temp,
        gyro_x |-> g[1], gyro_y |-> g[2], gyro_z |-> g[3] ] :
      a \in { <<sd.accel_z, sd.accel_y, sd.accel_x>>,
              <<sd.accel_x, OneG - sd.accel_y, sd.accel_z>> },
      g \in { <<OtherRate(sd.gyro_x), OtherRate(sd.gyro_y), sd.gyro_z>>,
              <<sd.gyro_x, OtherRate(sd.gyro_y), OtherRate(sd.gyro_z)>>,
              <<OtherRate(sd.gyro_x), sd.gyro_y, OtherRate(sd.gyro_z)>> } }

\* the samples with the gyro_z of sd
SameYawInput(sd) == { s \in SamplesLike(sd) : s.gyro_z = sd.gyro_z }

\* the samples with the accelerometer pitch and the gyro_x of sd
SamePitchInput(sd) ==
    { s \in SamplesLike(sd) :
        accel_angles(s)[1] = accel_angles(sd)[1] /\ s.gyro_x = sd.gyro_x }

\* the samples with the accelerometer roll and the gyro_y of sd
SameRollInput(sd) ==
    { s \in SamplesLike(sd) :
        accel_angles(s)[2] = accel_angles(sd)[2] /\ s.gyro_y = sd.gyro_y }

\* component i of what an update hands back, nothing when it raised
Channel(u, i) ==
    IF u.raised THEN None ELSE Some(Angles(u.heap[u.ret])[i])

\* this step is an update of a filter called on its own
FilterUpdated == Called /\ last'.op = "update"

\* C23: the three channels are decoupled in both filters. An update at the
\* same time, from a filter that agrees on the yaw channel, with a sample
\* that agrees on gyro_z, stores and returns the same yaw whatever the
\* accelerations, the other two rates and the other two angles are; in the
\* Kalman filter the pitch follows the accelerometer pitch and gyro_x alone
\* and the roll the accelerometer roll and gyro_y alone. Step by step this
\* gives equal sequences for two runs with the same timestamps.
C23_ChannelsDecoupled ==
    [][ FilterUpdated
        => LET sd == Val(last'.sensor_data)
               now == Val(last'.now)
               a == filter_update(filter, heap, sd, now)
           IN  /\ a.filter = filter'
               /\ \A t \in YawTwins(filter, heap), s \in SameYawInput(sd) :
                    LET u == filter_update(t.filter, t.heap, s, now)
                    IN  /\ YawView(u.filter, u.heap) = YawView(filter', heap')
                        /\ Channel(u, 3) = Channel(a, 3)
               /\ filter.name = "Kalman"
                    => /\ \A t \in PitchTwins(filter),
                             s \in SamePitchInput(sd) :
                            LET u == filter_update(t, heap, s, now)
                            IN  /\ PitchView(u.filter) = PitchView(filter')
                                /\ Channel(u, 1) = Channel(a, 1)
                       /\ \A t \in RollTwins(filter),
                             s \in SameRollInput(sd) :
                            LET u == filter_update(t, heap, s, now)
                            IN  /\ RollView(u.filter) = RollView(filter')
                                /\ Channel(u, 2) = Channel(a, 2) ]_vars

\* C23 witness: an accepted Kalman step has moved all three channels, from
\* a sample that has samples with the same pitch input and another roll
\* tilt, and samples with the same roll input and another pitch tilt
C23_Witness ==
    /\ last.op = "update" /\ last.outcome = "return"
    /\ filter.name = "Kalman"
    /\ IntervalAccepted(last)
    /\ n_ops >= 2
    /\ filter.yaw # 0
    /\ filter.pitch_filter.angle # 0
    /\ filter.roll_filter.angle # 0
    /\ \E s \in SamePitchInput(Val(last.sensor_data)) :
         accel_angles(s)[2] # accel_angles(Val(last.sensor_data))[2]
    /\ \E s \in SameRollInput(Val(last.sensor_data)) :
         accel_angles(s)[1] # accel_angles(Val(last.sensor_data))[1]

(* ---------------------------------------------------------------------- *)
(* C24                                                                     *)
(* ---------------------------------------------------------------------- *)

\* this step is the first update of the Kalman filter after its
\* construction or its reset
FirstKalmanUpdate ==
    /\ Updated
    /\ filter.name = "Kalman"
    /\ (last.op \in {"__init__", "reset"} \/ filter.last_time = None)

\* C24: the first KalmanFilterOrientation.update after construction or
\* after reset only records last_time and returns Orientation(0, 0, 0): it
\* does not seed from the accelerometer tilt and leaves angle, P and K of
\* both 1-axis filters and the yaw unchanged, whatever the sample is.
C24_FirstKalmanUpdateRecordsTime ==
    [][ FirstKalmanUpdate
        => /\ filter.last_time = None
           /\ filter' = [filter EXCEPT !.last_time = last'.now]
           /\ Val(returned') = <<0, 0, 0>>
           /\ \A s \in SamplesLike(Val(last'.sensor_data)) :
                LET u == filter_update(filter, heap, s, Val(last'.now))
                IN  /\ u.filter = filter'
                    /\ Channel(u, 1) = Some(0)
                    /\ Channel(u, 2) = Some(0)
                    /\ Channel(u, 3) = Some(0) ]_vars

\* C24 witness: after a reset the Kalman filter was handed a sample that is
\* tilted and turning, and returned zeros and kept its angles at zero
C24_Witness ==
    /\ AfterUpdate
    /\ filter.name = "Kalman"
    /\ last.dt = None
    /\ n_ops >= 3
    /\ accel_angles(Val(last.sensor_data))[1] # 0
    /\ Val(last.sensor_data).gyro_z # 0
    /\ Val(returned) = <<0, 0, 0>>
    /\ FilterAngles = <<0, 0, 0>>
    /\ filter.last_time = last.now

(* ---------------------------------------------------------------------- *)
(* C25                                                                     *)
(* ---------------------------------------------------------------------- *)

\* this step is the first get_orientation after a calibrate that completed
\* on a tracker whose filter had been updated, more than one second after
\* that update
UpdatedAfterLongCalibrate ==
    /\ Updated
    /\ last.op = "calibrate" /\ last.outcome = "return"
    /\ filter.last_time # None
    /\ Val(last'.dt) > OneSecond

\* the angles an accepted step of filter f computes from sample sd
StepAngles(f, h, sd, dt) ==
    IF f.name = "Kalman"
    THEN Angles(KalmanFilterOrientation_angles(
                    KalmanFilterOrientation_step(f, sd, dt)))
    ELSE Angles(ComplementaryFilter_step(f.alpha, h[f.orientation], sd, dt))

\* C25: calibrate leaves the filter state, orientation and last_time,
\* untouched, so when it took longer than 1.0 second on a tracker that is
\* tracking, the first get_orientation after it is rejected by the dt guard
\* and returns the orientation from before the recalibration; the
\* get_orientation that follows within a second is the first to produce an
\* orientation computed with the new offsets.
C25_RecalibrationStall ==
    [][ /\ Calibrated => (filter' = filter /\ heap' = heap)
        /\ UpdatedAfterLongCalibrate
            => /\ IntervalRejected(last')
               /\ FilterAngles' = FilterAngles
               /\ Val(returned') = FilterAngles
               /\ returned # None /\ Val(returned') = Val(returned)
               /\ filter'.last_time = last'.now
               /\ \A raw \in RawSamples, dt \in 1..OneSecond :
                    LET sd == MPU6050_read(raw, accel_offset', gyro_offset')
                        u == filter_update(filter', heap', sd,
                                           Val(last'.now) + dt)
                    IN  /\ ~u.raised
                        /\ Angles(u.heap[u.ret])
                             = StepAngles(filter, heap, sd, dt)
        /\ (Updated /\ AfterUpdate /\ IntervalRejected(last)
               /\ IntervalAccepted(last'))
            => LET sd == MPU6050_read(last'.reads[1], accel_offset,
                                      gyro_offset)
               IN  Val(returned')
                     = StepAngles(filter, heap, sd, Val(last'.dt)) ]_vars

\* the angles the first update of a complementary filter stores for bus
\* answer raw under the offsets given
SeedAngles(raw, a_offset, g_offset) ==
    accel_angles(MPU6050_read(raw, a_offset, g_offset))

\* C25 witness: a complementary tracker was updated, then calibrated, then
\* asked again more than a second later; it answered with the angles it had
\* computed with the zero offsets, which no sample gives with the new ones
C25_Witness ==
    /\ AfterUpdate
    /\ filter.name = "Complementary"
    /\ last.dt # None /\ Val(last.dt) > OneSecond
    /\ n_ops = 3
    /\ state = "Tracking"
    /\ accel_offset # ZeroOffset
    /\ \E raw \in RawSamples :
         <<Val(returned)[1], Val(returned)[2]>>
            = SeedAngles(raw, ZeroOffset, ZeroOffset)
    /\ \A raw \in RawSamples :
         <<Val(returned)[1], Val(returned)[2]>>
            # SeedAngles(raw, accel_offset, gyro_offset)
    /\ Val(returned)[3] = 0

(* ---------------------------------------------------------------------- *)
(* C26                                                                     *)
(* ---------------------------------------------------------------------- *)

\* C26: calibrate is atomic with respect to the offsets. When a sensor read
\* fails in the sampling loop the failure propagates and accel_offset and
\* gyro_offset keep their values; an offset changes only in a calibrate that
\* has read all its samples, and then both are assigned from all of them.
C26_CalibrateAtomic ==
    [][ /\ (Calibrated /\ last'.outcome = "OSError")
            => /\ 1 <= last'.n_reads /\ last'.n_reads <= last'.samples
               /\ accel_offset' = accel_offset
               /\ gyro_offset' = gyro_offset
               /\ state' = state
        /\ (accel_offset' # accel_offset \/ gyro_offset' # gyro_offset)
            => /\ Calibrated /\ last'.outcome = "return"
               /\ last'.n_reads = last'.samples
               /\ Len(last'.reads) = last'.samples
               /\ MeanIs(accel_offset'[1],
                         Total(last'.reads, last'.samples, 1), last'.samples)
               /\ MeanIs(gyro_offset'[3],
                         Total(last'.reads, last'.samples, 7), last'.samples)
      ]_vars

\* C26 witness: on a calibrated tracker, a calibrate failed in its last read
\* and the offsets of the earlier calibration are in force
C26_Witness ==
    /\ last.op = "calibrate" /\ last.outcome = "OSError"
    /\ last.samples = MaxSamples
    /\ last.n_reads = MaxSamples
    /\ state = "Tracking"
    /\ accel_offset # ZeroOffset
    /\ gyro_offset # ZeroOffset

(* ---------------------------------------------------------------------- *)
(* C27                                                                     *)
(* ---------------------------------------------------------------------- *)

\* C27: calibrate with a sample count of 0 performs no sensor read and fails
\* with a division by zero, leaving accel_offset and gyro_offset at their
\* values.
C27_CalibrateNoSamples ==
    [][ (Calibrated /\ last'.samples = 0)
        => /\ last'.n_reads = 0
           /\ last'.reads = <<>>
           /\ last'.outcome = "ZeroDivisionError"
           /\ last'.calls = <<"sensor.calibrate">>
           /\ accel_offset' = accel_offset
           /\ gyro_offset' = gyro_offset
           /\ state' = state ]_vars

\* C27 witness: on a calibrated tracker a calibrate of no samples has failed
\* and the offsets of the earlier calibration are in force
C27_Witness ==
    /\ last.op = "calibrate"
    /\ last.samples = 0
    /\ last.outcome = "ZeroDivisionError"
    /\ state = "Tracking"
    /\ accel_offset # ZeroOffset
    /\ gyro_offset # ZeroOffset

(* ---------------------------------------------------------------------- *)
(* C28                                                                     *)
(* ---------------------------------------------------------------------- *)

\* this step is a calibrate that returns
CalibrateReturned == Calibrated /\ last'.outcome = "return"

\* the offsets a calibration over one or two equal or different bus answers
\* can leave
CalibratedOffsets ==
    { <<calibrate_accel_offset(s, Len(s)), calibrate_gyro_offset(s, Len(s))>> :
      s \in UNION {Streams(n) : n \in 1..MaxSamples} }

\* C28: the offsets calibrate computes do not depend on the offsets in force
\* before the call: it averages the scaled bus answers with no offset
\* subtracted, so they are a function of the stream, and calibrating twice
\* over the same stream gives the offsets of calibrating once.
C28_CalibrateForgetsOffsets ==
    [][ CalibrateReturned
        => /\ accel_offset' = calibrate_accel_offset(last'.reads,
                                                     last'.samples)
           /\ gyro_offset' = calibrate_gyro_offset(last'.reads, last'.samples)
           /\ \A k \in 1..3 :
                /\ MeanIs(accel_offset'[k] + (IF k = 3 THEN OneG ELSE 0),
                          Total(last'.reads, last'.samples, k), last'.samples)
                /\ MeanIs(gyro_offset'[k],
                          Total(last'.reads, last'.samples, 4 + k),
                          last'.samples)
           /\ (last.op = "calibrate" /\ last.outcome = "return"
                 /\ last.reads = last'.reads)
                => /\ accel_offset' = accel_offset
                   /\ gyro_offset' = gyro_offset ]_vars

\* C28 witness: a calibrated complementary tracker returned a first
\* orientation that no sample gives with the zero offsets, and was then
\* calibrated again, to offsets with which no sample gives it either
C28_Witness ==
    /\ last.op = "calibrate" /\ last.outcome = "return"
    /\ n_ops = 3
    /\ filter.name = "Complementary"
    /\ returned # None
    /\ \E raw \in RawSamples, o \in CalibratedOffsets :
         <<Val(returned)[1], Val(returned)[2]>> = SeedAngles(raw, o[1], o[2])
    /\ \A raw \in RawSamples :
         /\ <<Val(returned)[1], Val(returned)[2]>>
              # SeedAngles(raw, ZeroOffset, ZeroOffset)
         /\ <<Val(returned)[1], Val(returned)[2]>>
              # SeedAngles(raw, accel_offset, gyro_offset)

(* ---------------------------------------------------------------------- *)
(* C29                                                                     *)
(* ---------------------------------------------------------------------- *)

\* the sample is gravity on Z and no rotation
Resting(sd) ==
    /\ <<sd.accel_x, sd.accel_y, sd.accel_z>> = <<0, 0, OneG>>
    /\ <<sd.gyro_x, sd.gyro_y, sd.gyro_z>> = <<0, 0, 0>>

\* every bus answer of the stream is raw
ConstantStream(stream, raw) ==
    stream # <<>> /\ \A i \in 1..Len(stream) : stream[i] = raw

CovarianceBounded(kf, new) ==
    (kf.Q > 0 /\ kf.R > 0 /\ kf.P >= 0)
        => /\ new.P >= 0
           /\ new.P < new.R
           /\ new.P <= kf.P + kf.Q

====
